---- MODULE Spec2Model ----
(***************************************************************************)
(* Model of the CalDAV export subsystem of the workout planner:            *)
(* backend/caldav_client.py (class CalDAVClient) and the HTTP export       *)
(* route export_to_calendar of backend/app.py, running against a remote    *)
(* CalDAV account; with the stored selections the export reads: the        *)
(* update_selection route and dedupe_workout_selections.dedupe.            *)
(***************************************************************************)
EXTENDS Integers, Sequences, FiniteSets, TLC

(***************************************************************************)
(* Bounds of the model.                                                    *)
(***************************************************************************)
MaxDate == 2          \* calendar dates are the day numbers 1..MaxDate
MaxClock == 1         \* datetime.now(), in whole seconds, ranges over 0..MaxClock
MaxPlanLen == 2       \* number of date keys of a workouts_by_date mapping
MaxEvents == 2        \* workout events held by the remote account at one time
MaxFail == 1          \* remote operations failing inside one bulk call
MaxDuration == 250    \* plannedDuration ranges over 0..MaxDuration hundredths of an hour
MaxRows == 2          \* rows of one workout in the workout_selections table
MaxStamp == 2         \* stored updated_at values range over 1..MaxStamp

Dates == 1..MaxDate

(***************************************************************************)
(* Python values.                                                          *)
(***************************************************************************)
None == "None"              \* Python None
Missing == "<missing>"      \* a key that is absent from a workout dict
NoDuration == -1            \* plannedDuration None or absent
NonNumeric == -2            \* plannedDuration that is not a number (int() raises)

\* datetime granularity: ticks per day; datetime.max.time() is the last tick of a day
TicksPerDay == 24

SetToSeq(S) ==
  LET RECURSIVE Build(_)
      Build(T) == IF T = {} THEN <<>>
                  ELSE LET x == CHOOSE y \in T : TRUE IN <<x>> \o Build(T \ {x})
  IN Build(S)

(***************************************************************************)
(* Workout dictionaries handed to create_workout_event.  plannedDuration   *)
(* is in hundredths of an hour.                                            *)
(***************************************************************************)
RunWorkout == [workoutType |-> "Run", workoutLocation |-> "outdoor",
               timeOfDay |-> "morning", plannedDuration |-> 150]
SwimWorkout == [workoutType |-> "Swim", workoutLocation |-> None,
                timeOfDay |-> Missing, plannedDuration |-> NoDuration]
BadWorkout == [workoutType |-> "Bike", workoutLocation |-> None,
               timeOfDay |-> "evening", plannedDuration |-> NonNumeric]

\* the workout lists a date of a plan can carry
DayLists == { <<>>, <<SwimWorkout, RunWorkout>>, <<BadWorkout>> }

\* workouts_by_date: a dict, i.e. insertion-ordered pairs with distinct date keys
PlanEntries == [date : Dates, workouts : DayLists]
Plans == { p \in UNION { [1..n -> PlanEntries] : n \in 0..MaxPlanLen } :
             \A i, j \in DOMAIN p : i # j => p[i].date # p[j].date }

(***************************************************************************)
(* Note rendering of create_workout_event.                                 *)
(***************************************************************************)
Field(k, s, h, m) == [k |-> k, s |-> s, h |-> h, m |-> m]

\* the hundredths d of an hour, d <= 400, for which the double
\* (d / 100 - int(d / 100)) * 60 lies just below the whole number of minutes
\* that the fraction stands for
FloatShort ==
  {115, 120, 140, 145, 165, 190, 205, 215, 230, 240, 255, 265, 280, 290,
   305, 315, 330, 340, 355, 365, 380, 390}

\* hours = int(duration_hours); minutes = int((duration_hours - hours) * 60),
\* in double arithmetic
DurationHours(d) == d \div 100
DurationMinutes(d) ==
  LET exact == ((d % 100) * 60) \div 100
  IN IF d \in FloatShort THEN exact - 1 ELSE exact

DurationField(d) ==
  LET hours == DurationHours(d)
      minutes == DurationMinutes(d)
      unit == IF hours # 1 THEN "hours" ELSE "hour"
  IN IF hours > 0 /\ minutes > 0 THEN Field("Duration", unit, hours, minutes)
     ELSE IF hours > 0 THEN Field("Duration", unit, hours, 0)
     ELSE Field("Duration", "minutes", 0, minutes)

\* workout.get('timeOfDay', 'Not specified')
TimeOfDayText(w) == IF w.timeOfDay = Missing THEN "Not specified" ELSE w.timeOfDay

\* the workout_info list of one workout
WorkoutInfo(w) ==
  <<Field("Type", IF w.workoutType = Missing THEN "Unknown" ELSE w.workoutType, 0, 0)>>
  \o (IF w.workoutLocation \notin {None, Missing, ""}
        THEN <<Field("Location", w.workoutLocation, 0, 0)>> ELSE <<>>)
  \o <<Field("Time", TimeOfDayText(w), 0, 0)>>
  \o (IF w.plannedDuration \notin {NoDuration, 0}
        THEN <<DurationField(w.plannedDuration)>> ELSE <<>>)

\* int(duration_hours) raises on a value that is not a number
FormatRaises(workouts) ==
  \E i \in DOMAIN workouts : workouts[i].plannedDuration = NonNumeric

\* text is a sequence of tokens: a note line, a raw newline, or an escaped newline
LineTok(info) == [tok |-> "line", info |-> info]
NewlineTok == [tok |-> "\n", info |-> <<>>]
EscapedNewlineTok == [tok |-> "\\n", info |-> <<>>]

\* note lines in reverse order
MutNotesLines(workouts) ==
  [i \in DOMAIN workouts |-> LineTok(WorkoutInfo(workouts[Len(workouts) + 1 - i]))]

\* notes_lines, in the order of the workouts
NotesLines(workouts) == [i \in DOMAIN workouts |-> LineTok(WorkoutInfo(workouts[i]))]

\* "\n".join(notes_lines)
JoinLines(lines) ==
  LET RECURSIVE J(_)
      J(i) == IF i > Len(lines) THEN <<>>
              ELSE IF i = Len(lines) THEN <<lines[i]>>
              ELSE <<lines[i], NewlineTok>> \o J(i + 1)
  IN J(1)

\* notes.replace("\n", "\\n")
EscapeNotes(text) ==
  [i \in DOMAIN text |-> IF text[i] = NewlineTok THEN EscapedNewlineTok ELSE text[i]]

(***************************************************************************)
(* Calendar objects.                                                       *)
(***************************************************************************)
WorkoutTitle == "Joe workout schedule"

Uid(ts, d, dom) == [ts |-> ts, d |-> d, dom |-> dom]
NoUid == Uid(-1, 0, "-")

\* an event whose DTEND is the event date itself
MutIcalEvent(now_, event_date, workouts) ==
  [uid |-> Uid(now_, event_date, "workout-planner"),
   dtstart |-> event_date * TicksPerDay,
   dtend |-> event_date * TicksPerDay,
   summary |-> WorkoutTitle,
   description |-> EscapeNotes(JoinLines(NotesLines(workouts)))]

\* the VCALENDAR text built by create_workout_event at time `now`
IcalEvent(now_, event_date, workouts) ==
  [uid |-> Uid(now_, event_date, "workout-planner"),
   dtstart |-> event_date * TicksPerDay,
   dtend |-> (event_date + 1) * TicksPerDay,
   summary |-> WorkoutTitle,
   description |-> EscapeNotes(JoinLines(NotesLines(workouts)))]

\* a filter that lets every event through
MutContainsMarker(ev) == TRUE

\* "SUMMARY:Joe workout schedule" in ical_data (a substring test)
ContainsMarker(ev) ==
  ev.summary \in {"Joe workout schedule", "Joe workout schedule (copy)"}

\* entries of the account that this program did not write
DoctorAppointment ==
  [uid |-> Uid(-1, 1, "user"), dtstart |-> 1 * TicksPerDay + 9,
   dtend |-> 1 * TicksPerDay + 10, summary |-> "Doctor Appointment",
   description |-> <<>>]
Vacation ==
  [uid |-> Uid(-2, 1, "user"), dtstart |-> 1 * TicksPerDay,
   dtend |-> 3 * TicksPerDay, summary |-> "Vacation",
   description |-> <<>>]
UserEvents == {DoctorAppointment, Vacation}

CalendarNames == {"Personal", "Workouts"}
\* the calendar lists principal.calendars() can return, in server order
AccountCalendars == { <<>>, <<"Personal", "Workouts">> }

WorkoutEventsOf(evs) == { e \in evs : ContainsMarker(e) }


(***************************************************************************)
(* The remote server, as the caldav library presents it.                   *)
(***************************************************************************)
\* calendar.search(start=, end=): the events whose span overlaps the window
Search(evs, start_datetime, end_datetime) ==
  { e \in evs : e.dtstart < end_datetime /\ e.dtend > start_datetime }

\* calendar.save_event(ical): the object is stored under the name its UID gives
SaveEvent(evs, ev) == { e \in evs : e.uid # ev.uid } \cup {ev}

RemoteCall(kind, uid, ok) == [kind |-> kind, uid |-> uid, ok |-> ok]
Logged(uid, msg) == [uid |-> uid, msg |-> msg]

(***************************************************************************)
(* State.                                                                  *)
(***************************************************************************)
Instances == {"api", "req"}     \* the CalDAVClient objects of the process

VARIABLES
  account,     \* the calendars of the remote account, in server order
  events,      \* calendar name -> the events stored on that calendar
  now,         \* datetime.now(), in seconds
  client,      \* instance -> self._client
  principal,   \* instance -> self._principal
  calendar,    \* instance -> self._calendar (the name of the selected calendar)
  last,        \* the most recent CalDAVClient call: arguments, outcome, remote calls
  db,          \* the stored workouts with their selections, in query order
  req,         \* the HTTP export request in progress
  rerun,       \* progress of a repeated delete-then-export of one plan
  workout_selections,  \* the rows of the workout_selections table, as the session sees them
  answer,      \* the most recent dedupe call or update_selection request and its result
  workers      \* instance -> position of the export request a worker serves with it

vars == <<account, events, now, client, principal, calendar, last, db, req, rerun,
          workout_selections, answer, workers>>

\* the state outside the CalDAVClient objects and the export request
appState == <<db, workout_selections, answer, workers>>

\* return values: an int, a dict, an event id, or nothing
RetNone == [type |-> "none", n |-> 0, uid |-> NoUid, results |-> <<>>]
RetInt(n) == [type |-> "int", n |-> n, uid |-> NoUid, results |-> <<>>]
RetId(uid) == [type |-> "id", n |-> 0, uid |-> uid, results |-> <<>>]
RetList(n) == [type |-> "list", n |-> n, uid |-> NoUid, results |-> <<>>]

Call(i, op, name, start, end, plan, err, ret, calls, errors) ==
  [inst |-> i, op |-> op, name |-> name, start |-> start, end |-> end,
   plan |-> plan, err |-> err, ret |-> ret, calls |-> calls, errors |-> errors]

NoCall == Call("api", "__init__", None, 0, 0, <<>>, "none", RetNone, <<>>, <<>>)

(***************************************************************************)
(* CalDAVClient: connection lifecycle.                                     *)
(***************************************************************************)
\* a connect that resets the principal before it tries
MutConnect(i, how) ==
  /\ client' = [client EXCEPT ![i] = IF how = "client_error" THEN @ ELSE "DAVClient"]
  /\ principal' = [principal EXCEPT ![i] = IF how = "ok" THEN "Principal" ELSE None]
  /\ last' = Call(i, "connect", None, 0, 0, <<>>,
                  IF how = "ok" THEN "none" ELSE "ConnectError", RetNone,
                  IF how = "client_error" THEN <<>>
                  ELSE <<RemoteCall("principal", NoUid, how = "ok")>>, <<>>)
  /\ UNCHANGED <<account, events, now, calendar>>

\* connect(): how == "ok", "client_error" (DAVClient(...) raises) or
\* "principal_error" (client.principal() raises)
Connect(i, how) ==
  /\ client' = [client EXCEPT ![i] = IF how = "client_error" THEN @ ELSE "DAVClient"]
  /\ principal' = [principal EXCEPT ![i] = IF how = "ok" THEN "Principal" ELSE @]
  /\ last' = Call(i, "connect", None, 0, 0, <<>>,
                  IF how = "ok" THEN "none" ELSE "ConnectError", RetNone,
                  IF how = "client_error" THEN <<>>
                  ELSE <<RemoteCall("principal", NoUid, how = "ok")>>, <<>>)
  /\ UNCHANGED <<account, events, now, calendar>>

\* "if not self._principal"
MutNotConnected(i) == client[i] = None
NotConnected(i) == principal[i] = None

\* get_calendars()
GetCalendars(i, remoteOk) ==
  /\ last' = IF NotConnected(i)
               THEN Call(i, "get_calendars", None, 0, 0, <<>>, "NotConnected",
                         RetNone, <<>>, <<>>)
             ELSE IF ~remoteOk
               THEN Call(i, "get_calendars", None, 0, 0, <<>>, "RemoteError",
                         RetNone, <<RemoteCall("calendars", NoUid, FALSE)>>, <<>>)
             ELSE Call(i, "get_calendars", None, 0, 0, <<>>, "none",
                       RetList(Len(account)),
                       <<RemoteCall("calendars", NoUid, TRUE)>>, <<>>)
  /\ UNCHANGED <<account, events, now, client, principal, calendar>>

\* the outcome of select_calendar(calendar_name) on a connected session
SelectResult(calendars, calendar_name) ==
  IF calendars = <<>> THEN [err |-> "NoCalendarsAvailable", cal |-> None]
  ELSE IF calendar_name \notin {None, ""}
    THEN IF \E k \in DOMAIN calendars : calendars[k] = calendar_name
           THEN [err |-> "none", cal |-> calendar_name]
           ELSE [err |-> "CalendarNotFound", cal |-> None]
  ELSE [err |-> "none", cal |-> calendars[1]]

\* a select_calendar that drops the selection before it looks for the calendar
MutSelectCalendar(i, calendar_name, remoteOk) ==
  LET r == SelectResult(account, calendar_name) IN
  /\ last' = IF NotConnected(i)
               THEN Call(i, "select_calendar", calendar_name, 0, 0, <<>>,
                         "NotConnected", RetNone, <<>>, <<>>)
             ELSE IF ~remoteOk
               THEN Call(i, "select_calendar", calendar_name, 0, 0, <<>>,
                         "RemoteError", RetNone,
                         <<RemoteCall("calendars", NoUid, FALSE)>>, <<>>)
             ELSE Call(i, "select_calendar", calendar_name, 0, 0, <<>>, r.err,
                       RetNone, <<RemoteCall("calendars", NoUid, TRUE)>>, <<>>)
  /\ calendar' = IF ~NotConnected(i) /\ remoteOk /\ r.err = "none"
                   THEN [calendar EXCEPT ![i] = r.cal]
                   ELSE [calendar EXCEPT ![i] = None]
  /\ UNCHANGED <<account, events, now, client, principal>>

\* select_calendar(calendar_name)
SelectCalendar(i, calendar_name, remoteOk) ==
  LET r == SelectResult(account, calendar_name) IN
  /\ last' = IF NotConnected(i)
               THEN Call(i, "select_calendar", calendar_name, 0, 0, <<>>,
                         "NotConnected", RetNone, <<>>, <<>>)
             ELSE IF ~remoteOk
               THEN Call(i, "select_calendar", calendar_name, 0, 0, <<>>,
                         "RemoteError", RetNone,
                         <<RemoteCall("calendars", NoUid, FALSE)>>, <<>>)
             ELSE Call(i, "select_calendar", calendar_name, 0, 0, <<>>, r.err,
                       RetNone, <<RemoteCall("calendars", NoUid, TRUE)>>, <<>>)
  /\ calendar' = IF ~NotConnected(i) /\ remoteOk /\ r.err = "none"
                   THEN [calendar EXCEPT ![i] = r.cal]
                   ELSE calendar
  /\ UNCHANGED <<account, events, now, client, principal>>

\* a disconnect that drops the connection and keeps the selected calendar
MutDisconnect(i) ==
  /\ client' = [client EXCEPT ![i] = None]
  /\ principal' = [principal EXCEPT ![i] = None]
  /\ calendar' = calendar
  /\ last' = Call(i, "disconnect", None, 0, 0, <<>>, "none", RetNone, <<>>, <<>>)
  /\ UNCHANGED <<account, events, now>>

\* disconnect()
Disconnect(i) ==
  /\ client' = [client EXCEPT ![i] = None]
  /\ principal' = [principal EXCEPT ![i] = None]
  /\ calendar' = [calendar EXCEPT ![i] = None]
  /\ last' = Call(i, "disconnect", None, 0, 0, <<>>, "none", RetNone, <<>>, <<>>)
  /\ UNCHANGED <<account, events, now>>


(***************************************************************************)
(* CalDAVClient: event operations.                                         *)
(***************************************************************************)
\* a create_workout_event that saves a second time when the save fails
MutCreateEvent(evs, now_, event_date, workouts, saveOk) ==
  LET ev == IcalEvent(now_, event_date, workouts) IN
  IF FormatRaises(workouts)
    THEN [err |-> "ValueError", evs |-> evs, calls |-> <<>>, uid |-> ev.uid]
  ELSE IF ~saveOk
    THEN [err |-> "RemoteError", evs |-> evs,
          calls |-> <<RemoteCall("save_event", ev.uid, FALSE),
                      RemoteCall("save_event", ev.uid, FALSE)>>, uid |-> ev.uid]
  ELSE [err |-> "none", evs |-> SaveEvent(evs, ev),
        calls |-> <<RemoteCall("save_event", ev.uid, TRUE)>>, uid |-> ev.uid]

\* the body of create_workout_event once a calendar is selected
CreateEvent(evs, now_, event_date, workouts, saveOk) ==
  LET ev == IcalEvent(now_, event_date, workouts) IN
  IF FormatRaises(workouts)
    THEN [err |-> "ValueError", evs |-> evs, calls |-> <<>>, uid |-> ev.uid]
  ELSE IF ~saveOk
    THEN [err |-> "RemoteError", evs |-> evs,
          calls |-> <<RemoteCall("save_event", ev.uid, FALSE)>>, uid |-> ev.uid]
  ELSE [err |-> "none", evs |-> SaveEvent(evs, ev),
        calls |-> <<RemoteCall("save_event", ev.uid, TRUE)>>, uid |-> ev.uid]

\* create_workout_event(event_date, workouts)
CreateWorkoutEvent(i, event_date, workouts, saveOk) ==
  LET c == calendar[i]
      r == CreateEvent(events[c], now, event_date, workouts, saveOk) IN
  /\ IF c = None
       THEN /\ last' = Call(i, "create_workout_event", None, event_date, event_date,
                            <<[date |-> event_date, workouts |-> workouts]>>,
                            "NoCalendarSelected", RetNone, <<>>, <<>>)
            /\ events' = events
       ELSE /\ last' = Call(i, "create_workout_event", None, event_date, event_date,
                            <<[date |-> event_date, workouts |-> workouts]>>,
                            r.err, IF r.err = "none" THEN RetId(r.uid) ELSE RetNone,
                            r.calls, <<>>)
            /\ events' = [events EXCEPT ![c] = r.evs]
  /\ Cardinality(WorkoutEventsOf(UNION { events'[n] : n \in CalendarNames })) <= MaxEvents
  /\ UNCHANGED <<account, now, client, principal, calendar>>

\* the loop of export_workout_plan over workouts_by_date.items(), from entry k on
RECURSIVE ExportLoop(_, _, _, _, _)
ExportLoop(acc, plan, k, now_, saveFail) ==
  IF k > Len(plan) THEN acc
  ELSE IF plan[k].workouts = <<>>
    THEN ExportLoop(acc, plan, k + 1, now_, saveFail)
  ELSE
    LET r == CreateEvent(acc.evs, now_, plan[k].date, plan[k].workouts, k \notin saveFail)
        next == IF r.err = "none"
                  THEN [evs |-> r.evs, created_count |-> acc.created_count + 1,
                        calls |-> acc.calls \o r.calls, errors |-> acc.errors]
                  ELSE [evs |-> acc.evs, created_count |-> acc.created_count,
                        calls |-> acc.calls \o r.calls,
                        errors |-> Append(acc.errors, Logged(r.uid, r.err))]
    IN ExportLoop(next, plan, k + 1, now_, saveFail)

\* an export that counts the dates attempted instead of the dates created
MutExportPlan(evs, plan, now_, saveFail) ==
  [ExportLoop([evs |-> evs, created_count |-> 0, calls |-> <<>>, errors |-> <<>>],
              plan, 1, now_, saveFail)
     EXCEPT !.created_count = Cardinality({ k \in DOMAIN plan : plan[k].workouts # <<>> })]

ExportPlan(evs, plan, now_, saveFail) ==
  ExportLoop([evs |-> evs, created_count |-> 0, calls |-> <<>>, errors |-> <<>>],
             plan, 1, now_, saveFail)

\* the entries of a plan for which save_event is reached
SaveIndices(plan) ==
  { k \in DOMAIN plan : plan[k].workouts # <<>> /\ ~FormatRaises(plan[k].workouts) }

\* an export without its own precondition check: create_workout_event raises for
\* each date and the loop swallows it
MutExportWorkoutPlan(i, plan, saveFail) ==
  LET c == calendar[i]
      r == ExportPlan(events[c], plan, now, saveFail)
      dated == { k \in DOMAIN plan : plan[k].workouts # <<>> } IN
  /\ IF c = None
       THEN /\ last' = Call(i, "export_workout_plan", None, 0, 0, plan, "none",
                            RetInt(0), <<>>,
                            [k \in 1..Cardinality(dated) |->
                               Logged(NoUid, "NoCalendarSelected")])
            /\ events' = events
       ELSE /\ last' = Call(i, "export_workout_plan", None, 0, 0, plan, "none",
                            RetInt(r.created_count), r.calls, r.errors)
            /\ events' = [events EXCEPT ![c] = r.evs]
  /\ UNCHANGED <<account, now, client, principal, calendar>>

\* export_workout_plan(workouts_by_date); the saves of the entries saveFail fail
ExportWorkoutPlan(i, plan, saveFail) ==
  LET c == calendar[i]
      r == ExportPlan(events[c], plan, now, saveFail) IN
  /\ IF c = None
       THEN /\ last' = Call(i, "export_workout_plan", None, 0, 0, plan,
                            "NoCalendarSelected", RetNone, <<>>, <<>>)
            /\ events' = events
       ELSE /\ last' = Call(i, "export_workout_plan", None, 0, 0, plan, "none",
                            RetInt(r.created_count), r.calls, r.errors)
            /\ events' = [events EXCEPT ![c] = r.evs]
  /\ Cardinality(WorkoutEventsOf(UNION { events'[n] : n \in CalendarNames })) <= MaxEvents
  /\ UNCHANGED <<account, now, client, principal, calendar>>

\* the for-loop shared by the two delete operations, over the returned events
RECURSIVE DeleteLoop(_, _, _, _)
DeleteLoop(acc, returned, readFail, delFail) ==
  IF returned = <<>> THEN acc
  ELSE
    LET ev == Head(returned)
        next ==
          IF ev.uid \in readFail
            THEN [acc EXCEPT !.calls = Append(@, RemoteCall("load", ev.uid, FALSE)),
                             !.errors = Append(@, Logged(ev.uid, "Error processing event"))]
          ELSE IF ~ContainsMarker(ev) THEN acc
          ELSE IF ev.uid \in delFail
            THEN [acc EXCEPT !.calls = Append(@, RemoteCall("delete", ev.uid, FALSE)),
                             !.errors = Append(@, Logged(ev.uid, "Error processing event"))]
          ELSE [acc EXCEPT !.evs = @ \ {ev},
                           !.deleted_count = @ + 1,
                           !.calls = Append(@, RemoteCall("delete", ev.uid, TRUE))]
    IN DeleteLoop(next, Tail(returned), readFail, delFail)

\* a loop whose try encloses the whole for statement: the first failure ends it
MutDeleteEvents(evs, returned, firstCall, readFail, delFail) ==
  IF readFail \cup delFail # {}
    THEN [evs |-> evs, deleted_count |-> 0, calls |-> <<firstCall>>,
          errors |-> <<Logged(NoUid, "Error processing event")>>]
    ELSE DeleteLoop([evs |-> evs, deleted_count |-> 0, calls |-> <<firstCall>>,
                     errors |-> <<>>],
                    SetToSeq(returned), readFail, delFail)

DeleteEvents(evs, returned, firstCall, readFail, delFail) ==
  DeleteLoop([evs |-> evs, deleted_count |-> 0, calls |-> <<firstCall>>,
              errors |-> <<>>],
             SetToSeq(returned), readFail, delFail)

\* the ways the per-event remote operations of one bulk delete can fail
FailureChoices(returned) ==
  LET uids == { e.uid : e \in returned }
      wuids == { e.uid : e \in WorkoutEventsOf(returned) }
  IN { f \in [readFail : SUBSET uids, delFail : SUBSET wuids] :
         /\ f.readFail \cap f.delFail = {}
         /\ Cardinality(f.readFail \cup f.delFail) <= MaxFail }

\* a delete-all that scans the first date only
MutDeleteAllWorkoutEvents(i, listOk, f) ==
  LET c == calendar[i]
      r == DeleteEvents(events[c], Search(events[c], 1 * TicksPerDay, 2 * TicksPerDay),
                        RemoteCall("events", NoUid, TRUE), f.readFail, f.delFail) IN
  /\ IF c = None
       THEN /\ last' = Call(i, "delete_all_workout_events", None, 0, 0, <<>>,
                            "NoCalendarSelected", RetNone, <<>>, <<>>)
            /\ events' = events
     ELSE IF ~listOk
       THEN /\ last' = Call(i, "delete_all_workout_events", None, 0, 0, <<>>,
                            "RemoteError", RetNone,
                            <<RemoteCall("events", NoUid, FALSE)>>, <<>>)
            /\ events' = events
       ELSE /\ last' = Call(i, "delete_all_workout_events", None, 0, 0, <<>>, "none",
                            RetInt(r.deleted_count), r.calls, r.errors)
            /\ events' = [events EXCEPT ![c] = r.evs]
  /\ UNCHANGED <<account, now, client, principal, calendar>>

\* delete_all_workout_events()
DeleteAllWorkoutEvents(i, listOk, f) ==
  LET c == calendar[i]
      r == DeleteEvents(events[c], events[c], RemoteCall("events", NoUid, TRUE),
                        f.readFail, f.delFail) IN
  /\ IF c = None
       THEN /\ last' = Call(i, "delete_all_workout_events", None, 0, 0, <<>>,
                            "NoCalendarSelected", RetNone, <<>>, <<>>)
            /\ events' = events
     ELSE IF ~listOk
       THEN /\ last' = Call(i, "delete_all_workout_events", None, 0, 0, <<>>,
                            "RemoteError", RetNone,
                            <<RemoteCall("events", NoUid, FALSE)>>, <<>>)
            /\ events' = events
       ELSE /\ last' = Call(i, "delete_all_workout_events", None, 0, 0, <<>>, "none",
                            RetInt(r.deleted_count), r.calls, r.errors)
            /\ events' = [events EXCEPT ![c] = r.evs]
  /\ UNCHANGED <<account, now, client, principal, calendar>>

\* a window that opens after the start date
MutStartDatetime(start_date) == (start_date + 1) * TicksPerDay
\* a window that closes at midnight before the end date
MutEndDatetime(end_date) == end_date * TicksPerDay

\* start_datetime / end_datetime of delete_workout_events_in_range
StartDatetime(start_date) == start_date * TicksPerDay
EndDatetime(end_date) == end_date * TicksPerDay + (TicksPerDay - 1)

InRange(evs, start_date, end_date) ==
  Search(evs, StartDatetime(start_date), EndDatetime(end_date))

\* a failed search is logged and taken as an empty result
MutDeleteWorkoutEventsInRange(i, start_date, end_date, searchOk, f) ==
  LET c == calendar[i]
      r == DeleteEvents(events[c], IF searchOk THEN InRange(events[c], start_date, end_date)
                                   ELSE {},
                        RemoteCall("search", NoUid, searchOk), f.readFail, f.delFail) IN
  /\ IF c = None
       THEN /\ last' = Call(i, "delete_workout_events_in_range", None, start_date,
                            end_date, <<>>, "NoCalendarSelected", RetNone, <<>>, <<>>)
            /\ events' = events
       ELSE /\ last' = Call(i, "delete_workout_events_in_range", None, start_date,
                            end_date, <<>>, "none", RetInt(r.deleted_count),
                            r.calls, r.errors)
            /\ events' = [events EXCEPT ![c] = r.evs]
  /\ UNCHANGED <<account, now, client, principal, calendar>>

\* delete_workout_events_in_range(start_date, end_date)
DeleteWorkoutEventsInRange(i, start_date, end_date, searchOk, f) ==
  LET c == calendar[i]
      r == DeleteEvents(events[c], InRange(events[c], start_date, end_date),
                        RemoteCall("search", NoUid, TRUE), f.readFail, f.delFail) IN
  /\ IF c = None
       THEN /\ last' = Call(i, "delete_workout_events_in_range", None, start_date,
                            end_date, <<>>, "NoCalendarSelected", RetNone, <<>>, <<>>)
            /\ events' = events
     ELSE IF ~searchOk
       THEN /\ last' = Call(i, "delete_workout_events_in_range", None, start_date,
                            end_date, <<>>, "RemoteError", RetNone,
                            <<RemoteCall("search", NoUid, FALSE)>>, <<>>)
            /\ events' = events
       ELSE /\ last' = Call(i, "delete_workout_events_in_range", None, start_date,
                            end_date, <<>>, "none", RetInt(r.deleted_count),
                            r.calls, r.errors)
            /\ events' = [events EXCEPT ![c] = r.evs]
  /\ UNCHANGED <<account, now, client, principal, calendar>>

\* the seconds of datetime.now() pass
Tick ==
  /\ now < MaxClock
  /\ now' = now + 1
  /\ UNCHANGED <<account, events, client, principal, calendar, last, appState, req, rerun>>


(***************************************************************************)
(* The HTTP route POST /api/export/calendar (export_to_calendar).          *)
(***************************************************************************)
NoSelection == [exists |-> FALSE, is_selected |-> TRUE, current_plan_day |-> 0,
                time_of_day |-> None, workout_location |-> None]
Selection(sel, day, tod, loc) ==
  [exists |-> TRUE, is_selected |-> sel, current_plan_day |-> day,
   time_of_day |-> tod, workout_location |-> loc]
Workout(id, type, dur, day, selection) ==
  [id |-> id, workout_type |-> type, planned_duration |-> dur,
   originally_planned_day |-> day, selection |-> selection]

\* current_plan_day if moved, otherwise originally_planned_day
DisplayDate(w) ==
  IF w.selection.exists /\ w.selection.current_plan_day # 0
    THEN w.selection.current_plan_day ELSE w.originally_planned_day

\* the workout_data dict of one stored workout
WorkoutData(w) ==
  [workoutType |-> w.workout_type,
   workoutLocation |-> IF w.selection.exists THEN w.selection.workout_location ELSE None,
   timeOfDay |-> IF w.selection.exists THEN w.selection.time_of_day ELSE "Not specified",
   plannedDuration |-> w.planned_duration]

\* workouts_by_date[display_date].append(workout_data), creating the key if needed
AddToPlan(plan, display_date, workout_data) ==
  IF \E k \in DOMAIN plan : plan[k].date = display_date
    THEN [k \in DOMAIN plan |->
            IF plan[k].date = display_date
              THEN [plan[k] EXCEPT !.workouts = Append(@, workout_data)]
              ELSE plan[k]]
    ELSE Append(plan, [date |-> display_date, workouts |-> <<workout_data>>])

\* the grouping loop without the test of the display date against the range
RECURSIVE MutGroupWorkouts(_, _, _, _, _)
MutGroupWorkouts(plan, workouts, k, start_date, end_date) ==
  IF k > Len(workouts) THEN plan
  ELSE
    LET w == workouts[k]
        queried == /\ w.originally_planned_day >= start_date
                   /\ w.originally_planned_day <= end_date
        skipped == \/ ~queried
                   \/ (w.selection.exists /\ ~w.selection.is_selected)
    IN MutGroupWorkouts(IF skipped THEN plan
                        ELSE AddToPlan(plan, DisplayDate(w), WorkoutData(w)),
                        workouts, k + 1, start_date, end_date)

\* the grouping loop of export_to_calendar over the queried workouts, from row k on
RECURSIVE GroupWorkouts(_, _, _, _, _)
GroupWorkouts(plan, workouts, k, start_date, end_date) ==
  IF k > Len(workouts) THEN plan
  ELSE
    LET w == workouts[k]
        queried == /\ w.originally_planned_day >= start_date
                   /\ w.originally_planned_day <= end_date
        skipped == \/ ~queried
                   \/ (w.selection.exists /\ ~w.selection.is_selected)
                   \/ DisplayDate(w) < start_date
                   \/ DisplayDate(w) > end_date
    IN GroupWorkouts(IF skipped THEN plan ELSE AddToPlan(plan, DisplayDate(w), WorkoutData(w)),
                     workouts, k + 1, start_date, end_date)

BuildPlan(workouts, start_date, end_date) ==
  GroupWorkouts(<<>>, workouts, 1, start_date, end_date)

\* request bodies: a date, a missing key (0) or a string that is no ISO date (-1)
MissingKey == 0
NotADate == -1
BodyValues == Dates \cup {MissingKey, NotADate}

NoRequest == [pc |-> "idle", start |-> 0, end |-> 0, calendar_name |-> None,
              plan |-> <<>>, trace |-> <<>>, export_result |-> RetNone, status |-> 0]

Traced(op, name, start, end, plan) ==
  [op |-> op, name |-> name, start |-> start, end |-> end, plan |-> plan]

Respond(r, status) == [r EXCEPT !.pc = "done", !.status = status]

\* lines 730-796: validation, credentials, plan building, CalDAVClient(...)
\* credentials: "ok", "missing" (url, username or password unset) or "no_calendar"
RouteBegin(startDate, endDate, credentials, calendar_name) ==
  /\ req.pc \in {"idle", "done"}
  /\ LET fresh == [NoRequest EXCEPT !.start = startDate, !.end = endDate] IN
     IF startDate = MissingKey \/ endDate = MissingKey
       THEN /\ req' = Respond(fresh, 400)
            /\ UNCHANGED <<client, principal, calendar>>
     ELSE IF startDate = NotADate \/ endDate = NotADate
       THEN /\ req' = Respond(fresh, 500)
            /\ UNCHANGED <<client, principal, calendar>>
     ELSE IF startDate > endDate
       THEN /\ req' = Respond(fresh, 400)
            /\ UNCHANGED <<client, principal, calendar>>
     ELSE IF credentials # "ok"
       THEN /\ req' = Respond(fresh, 500)
            /\ UNCHANGED <<client, principal, calendar>>
     ELSE /\ req' = [fresh EXCEPT !.pc = "connect",
                                  !.calendar_name = calendar_name,
                                  !.plan = BuildPlan(db, startDate, endDate)]
          /\ client' = [client EXCEPT !["req"] = None]
          /\ principal' = [principal EXCEPT !["req"] = None]
          /\ calendar' = [calendar EXCEPT !["req"] = None]
  /\ UNCHANGED <<account, events, now, last, appState, rerun>>

\* export before delete
MutStepAfter(pc) ==
  CASE pc = "connect" -> "select"
    [] pc = "select" -> "export"
    [] pc = "export" -> "delete"
    [] pc = "delete" -> "disconnect"

\* the order of the calls of lines 798-816 on caldav_client
StepAfter(pc) ==
  CASE pc = "connect" -> "select"
    [] pc = "select" -> "delete"
    [] pc = "delete" -> "export"
    [] pc = "export" -> "disconnect"

\* after a call: the next call, or the except branch (line 828) answering 500
AfterCall(r, entry, err) ==
  IF err = "none"
    THEN [r EXCEPT !.pc = StepAfter(r.pc), !.trace = Append(@, entry)]
    ELSE [Respond(r, 500) EXCEPT !.trace = Append(@, entry)]

\* line 798
RouteConnect(how) ==
  /\ req.pc = "connect"
  /\ Connect("req", how)
  /\ req' = AfterCall(req, Traced("connect", None, 0, 0, <<>>), last'.err)
  /\ UNCHANGED <<appState, rerun>>

\* line 799
RouteSelect(remoteOk) ==
  /\ req.pc = "select"
  /\ SelectCalendar("req", req.calendar_name, remoteOk)
  /\ req' = AfterCall(req, Traced("select_calendar", req.calendar_name, 0, 0, <<>>),
                      last'.err)
  /\ UNCHANGED <<appState, rerun>>

\* line 802
RouteDelete(searchOk, f) ==
  /\ req.pc = "delete"
  /\ DeleteWorkoutEventsInRange("req", req.start, req.end, searchOk, f)
  /\ req' = AfterCall(req, Traced("delete_workout_events_in_range", None,
                                  req.start, req.end, <<>>), last'.err)
  /\ UNCHANGED <<appState, rerun>>

\* line 805
RouteExport(saveFail) ==
  /\ req.pc = "export"
  /\ ExportWorkoutPlan("req", req.plan, saveFail)
  /\ req' = [AfterCall(req, Traced("export_workout_plan", None, 0, 0, req.plan),
                       last'.err) EXCEPT !.export_result = last'.ret]
  /\ UNCHANGED <<appState, rerun>>

\* lines 807-826: the isinstance check on export_result, disconnect, the response
RouteFinish ==
  /\ req.pc = "disconnect"
  /\ Disconnect("req")
  /\ req' = [Respond(req, IF req.export_result.type = "dict" THEN 200 ELSE 500)
               EXCEPT !.trace = Append(@, Traced("disconnect", None, 0, 0, <<>>))]
  /\ UNCHANGED <<appState, rerun>>


(***************************************************************************)
(* Re-export: delete_workout_events_in_range(start, end) followed by       *)
(* export_workout_plan(plan), performed twice on one selected calendar     *)
(* with every remote operation succeeding.                                 *)
(***************************************************************************)
NoRerun == [pc |-> "idle", start |-> 0, end |-> 0, plan |-> <<>>, count1 |-> 0]
NoFailure == [readFail |-> {}, delFail |-> {}]

RerunBegin(start_date, end_date, plan) ==
  /\ rerun.pc = "idle"
  /\ calendar["api"] # None
  /\ rerun' = [pc |-> "delete1", start |-> start_date, end |-> end_date,
               plan |-> plan, count1 |-> 0]
  /\ UNCHANGED <<account, events, now, client, principal, calendar, last, appState, req>>

RerunDelete ==
  /\ rerun.pc \in {"delete1", "delete2"}
  /\ DeleteWorkoutEventsInRange("api", rerun.start, rerun.end, TRUE, NoFailure)
  /\ rerun' = [rerun EXCEPT !.pc = IF @ = "delete1" THEN "export1" ELSE "export2"]
  /\ UNCHANGED <<appState, req>>

RerunExport ==
  /\ rerun.pc \in {"export1", "export2"}
  /\ ExportWorkoutPlan("api", rerun.plan, {})
  /\ rerun' = IF rerun.pc = "export1"
                THEN [rerun EXCEPT !.pc = "delete2",
                        !.count1 = Cardinality(WorkoutEventsOf(events'[calendar["api"]]))]
                ELSE [rerun EXCEPT !.pc = "done"]
  /\ UNCHANGED <<appState, req>>

(***************************************************************************)
(* The workout_selections table and dedupe(session, commit, dry_run) of    *)
(* backend/dedupe_workout_selections.py.  A row is a record; NULL is None, *)
(* and 0 for the date column; a Boolean column holds "True" or "False".    *)
(***************************************************************************)
NoAnswer == [op |-> "none"]
NoWorkers == [i \in Instances |-> "idle"]

\* the attributes dedupe merges, with the NULL of each
MergedAttrs ==
  {"is_selected", "current_plan_day", "time_of_day", "workout_location", "user_notes"}
Null(attr) == IF attr = "current_plan_day" THEN 0 ELSE None

\* the user's choices a stored row can carry
RowChoices ==
  { [is_selected |-> "True", current_plan_day |-> 0, time_of_day |-> None,
     workout_location |-> None, user_notes |-> None],
    [is_selected |-> "False", current_plan_day |-> 0, time_of_day |-> "evening",
     workout_location |-> None, user_notes |-> "older note"],
    [is_selected |-> None, current_plan_day |-> 1, time_of_day |-> None,
     workout_location |-> "indoor", user_notes |-> None] }

WorkoutSelection(id, workout_id, c, updated_at) ==
  [id |-> id, workout_id |-> workout_id, is_selected |-> c.is_selected,
   current_plan_day |-> c.current_plan_day, time_of_day |-> c.time_of_day,
   workout_location |-> c.workout_location, user_notes |-> c.user_notes,
   updated_at |-> updated_at]

\* the rows a second workout can have: none, one, or three duplicates of which
\* the older two were updated at the same time
OtherRows ==
  { <<>>, <<[c |-> 2, u |-> 1]>>,
    <<[c |-> 3, u |-> 1], [c |-> 1, u |-> MaxStamp], [c |-> 2, u |-> 1]>> }
Choice(k) ==
  CHOOSE c \in RowChoices :
    c.is_selected = (CASE k = 1 -> "True" [] k = 2 -> "False" [] OTHER -> None)

\* tables with up to MaxRows rows of workout 1, followed by the rows of workout 2
Tables ==
  UNION { { [i \in 1..(n + Len(o)) |->
               IF i <= n THEN WorkoutSelection(i, 1, c[i], u[i])
               ELSE WorkoutSelection(i, 2, Choice(o[i - n].c), o[i - n].u)] :
              c \in [1..n -> RowChoices], u \in [1..n -> 1..MaxStamp], o \in OtherRows } :
          n \in 0..MaxRows }

\* datetime.utcnow() at a flush: later than every stored updated_at
Utcnow == MaxStamp + 1

\* group_by(workout_id).having(count(id) > 1)
DupRows(table) ==
  { w \in { table[i].workout_id : i \in DOMAIN table } :
      Cardinality({ i \in DOMAIN table : table[i].workout_id = w }) > 1 }

RowsOf(table, workout_id) ==
  { table[i] : i \in { k \in DOMAIN table : table[k].workout_id = workout_id } }

\* filter_by(workout_id).order_by(updated_at.desc()).all(): rows with equal
\* updated_at come in an order the database chooses
Orderings(rows) ==
  { o \in [1..Cardinality(rows) -> rows] :
      /\ \A i, j \in DOMAIN o : i # j => o[i] # o[j]
      /\ \A i, j \in DOMAIN o : i < j => o[i].updated_at >= o[j].updated_at }

\* the loop over attr of one duplicate: a None of the keeper takes the other's value,
\* a value of the keeper is overwritten in the mutation
MutMergeRow(keeper, other) ==
  [a \in DOMAIN keeper |->
     IF a \in MergedAttrs /\ other[a] # Null(a) THEN other[a] ELSE keeper[a]]

MergeRow(keeper, other) ==
  [a \in DOMAIN keeper |->
     IF a \in MergedAttrs /\ keeper[a] = Null(a) /\ other[a] # Null(a)
       THEN other[a] ELSE keeper[a]]

\* for other in others
RECURSIVE MergeOthers(_, _)
MergeOthers(keeper, others) ==
  IF others = <<>> THEN keeper
  ELSE MergeOthers(MergeRow(keeper, Head(others)), Tail(others))

Dedupe(commit, dry_run) ==
  LET table == workout_selections
      dup_rows == DupRows(table)
  IN \E selections \in [dup_rows -> UNION { Orderings(RowsOf(table, w)) : w \in dup_rows }] :
       /\ \A w \in dup_rows : selections[w] \in Orderings(RowsOf(table, w))
       /\ LET flushed == dup_rows # {} /\ ~dry_run /\ commit
              Merged(w) == MergeOthers(Head(selections[w]), Tail(selections[w]))
              \* onupdate=datetime.utcnow applies to a changed row when it is flushed
              Keeper(w) == IF flushed /\ Merged(w) # Head(selections[w])
                             THEN [Merged(w) EXCEPT !.updated_at = Utcnow]
                             ELSE Merged(w)
              deleted == IF dry_run THEN {}
                         ELSE { r \in UNION { RowsOf(table, w) : w \in dup_rows } :
                                  r # Head(selections[r.workout_id]) }
              Kept(r) == IF r.workout_id \in dup_rows /\ r = Head(selections[r.workout_id])
                           THEN Keeper(r.workout_id) ELSE r
              remaining == SelectSeq(table, LAMBDA r : r \notin deleted)
          IN /\ workout_selections' = [k \in DOMAIN remaining |-> Kept(remaining[k])]
             /\ answer' = [op |-> "dedupe", before |-> table, commit |-> commit,
                           dry_run |-> dry_run, committed |-> flushed,
                           ret |-> <<Cardinality(dup_rows), Cardinality(deleted)>>]
  /\ UNCHANGED <<account, events, now, client, principal, calendar, last, db, req,
                 rerun, workers>>

(***************************************************************************)
(* update_selection of backend/app.py (PUT/POST /api/selections/<id>).     *)
(* The request body is a dict: a function on the keys that were sent.      *)
(* JSON true, false and null are "True", "False" and None; currentPlanDay  *)
(* is a day number, or NotADate for a string fromisoformat rejects.        *)
(***************************************************************************)
Body(isSelected, currentPlanDay, timeOfDay, workoutLocation, userNotes) ==
  LET all == [isSelected |-> isSelected, currentPlanDay |-> currentPlanDay,
              timeOfDay |-> timeOfDay, workoutLocation |-> workoutLocation,
              userNotes |-> userNotes]
      sent == { k \in DOMAIN all :
                  IF k = "currentPlanDay" THEN all[k] # MissingKey ELSE all[k] # Missing }
  IN [k \in sent |-> all[k]]

RequestBodies ==
  { Body(s, d, t, o[1], o[2]) :
      s \in {Missing, "True", "False", None}, d \in {MissingKey, NotADate, MaxDate},
      t \in {Missing, None, "morning"},
      o \in { <<Missing, Missing>>, <<"indoor", Missing>>, <<Missing, "note">> } }

\* workout.selection as the export route reads it
SelectionView(row) ==
  Selection(row.is_selected = "True", row.current_plan_day, row.time_of_day,
            row.workout_location)

\* WorkoutSelection(workout_id=workout_id): no attribute set yet
NewSelection(id, workout_id) ==
  [id |-> id, workout_id |-> workout_id, is_selected |-> Missing, current_plan_day |-> 0,
   time_of_day |-> None, workout_location |-> None, user_notes |-> None, updated_at |-> 0]

\* lines 457-469: the assignments of the fields named in the body, in order
UpdateFields(selection, data) ==
  LET s1 == IF "isSelected" \in DOMAIN data
              THEN [selection EXCEPT !.is_selected = data.isSelected,
                                     !.time_of_day = IF data.isSelected = "True"
                                                       THEN @ ELSE None]
              ELSE selection
      s2 == IF "currentPlanDay" \in DOMAIN data
              THEN [s1 EXCEPT !.current_plan_day = data.currentPlanDay] ELSE s1
      s3 == IF "timeOfDay" \in DOMAIN data
              THEN [s2 EXCEPT !.time_of_day = data.timeOfDay] ELSE s2
      s4 == IF "workoutLocation" \in DOMAIN data
              THEN [s3 EXCEPT !.workout_location = data.workoutLocation] ELSE s3
  IN IF "userNotes" \in DOMAIN data
       THEN [s4 EXCEPT !.user_notes = data.userNotes] ELSE s4

\* db.session.commit(): column defaults on INSERT, onupdate on a changed row
Flush(selection, updated) ==
  IF updated = selection THEN updated
  ELSE [updated EXCEPT !.is_selected = IF @ = Missing THEN "True" ELSE @,
                       !.updated_at = Utcnow]

UpdateSelection(workout_id, data) ==
  LET table == workout_selections
      found == { k \in DOMAIN db : db[k].id = workout_id }
      stored == { i \in DOMAIN table : table[i].workout_id = workout_id }
      Answer(status) == [op |-> "update_selection", workout_id |-> workout_id,
                         data |-> data, status |-> status]
  IN /\ IF found = {}
          THEN /\ answer' = Answer(404)
               /\ UNCHANGED <<db, workout_selections>>
        ELSE IF "currentPlanDay" \in DOMAIN data /\ data.currentPlanDay = NotADate
          \* fromisoformat raises: rollback, 500
          THEN /\ answer' = Answer(500)
               /\ UNCHANGED <<db, workout_selections>>
        ELSE \E i \in (IF stored = {} THEN {Len(table) + 1} ELSE stored) :
               LET selection == IF stored = {} THEN NewSelection(i, workout_id)
                                ELSE table[i]
                   saved == Flush(selection, UpdateFields(selection, data))
               IN /\ workout_selections' =
                       IF stored = {} THEN Append(table, saved)
                       ELSE [table EXCEPT ![i] = saved]
                  /\ db' = [k \in DOMAIN db |->
                              IF k \in found
                                THEN [db[k] EXCEPT !.selection = SelectionView(saved)]
                                ELSE db[k]]
                  /\ answer' = Answer(200)
     /\ UNCHANGED <<account, events, now, client, principal, calendar, last, req,
                    rerun, workers>>

(***************************************************************************)
(* Two export requests for one date range, served at the same time by two  *)
(* workers, each with a CalDAVClient of its own (lines 791-816): the calls *)
(* of the two requests interleave, every remote operation succeeds.        *)
(***************************************************************************)
\* the request both workers serve: the whole range of dates, calendar "Workouts"
WorkerRequest == [start |-> 1, end |-> MaxDate, calendar_name |-> "Workouts"]
WorkerPlan == BuildPlan(db, WorkerRequest.start, WorkerRequest.end)

\* after a call of worker i: the next call, or the except branch when it raised
WorkerAfter(i) ==
  workers' = [workers EXCEPT ![i] = IF last'.err = "none" THEN StepAfter(@) ELSE "done"]

WorkerConnect(i) ==
  /\ workers[i] = "connect"
  /\ Connect(i, "ok")
  /\ WorkerAfter(i)
  /\ UNCHANGED <<db, workout_selections, answer, req, rerun>>

WorkerSelect(i) ==
  /\ workers[i] = "select"
  /\ SelectCalendar(i, WorkerRequest.calendar_name, TRUE)
  /\ WorkerAfter(i)
  /\ UNCHANGED <<db, workout_selections, answer, req, rerun>>

WorkerDelete(i) ==
  /\ workers[i] = "delete"
  /\ DeleteWorkoutEventsInRange(i, WorkerRequest.start, WorkerRequest.end, TRUE, NoFailure)
  /\ WorkerAfter(i)
  /\ UNCHANGED <<db, workout_selections, answer, req, rerun>>

WorkerExport(i) ==
  /\ workers[i] = "export"
  /\ ExportWorkoutPlan(i, WorkerPlan, {})
  /\ WorkerAfter(i)
  /\ UNCHANGED <<db, workout_selections, answer, req, rerun>>

WorkerDisconnect(i) ==
  /\ workers[i] = "disconnect"
  /\ Disconnect(i)
  /\ workers' = [workers EXCEPT ![i] = "done"]
  /\ UNCHANGED <<db, workout_selections, answer, req, rerun>>

(***************************************************************************)
(* Specifications.                                                         *)
(***************************************************************************)
InitRemote ==
  /\ account \in AccountCalendars
  /\ events = [c \in CalendarNames |->
                 IF \E k \in DOMAIN account : account[k] = c THEN UserEvents ELSE {}]
  /\ now = 0

InitClients ==
  /\ client = [i \in Instances |-> None]
  /\ principal = [i \in Instances |-> None]
  /\ calendar = [i \in Instances |-> None]
  /\ last = NoCall

Init ==
  /\ InitRemote
  /\ InitClients
  /\ db = <<>>
  /\ req = NoRequest
  /\ rerun = NoRerun
  /\ workout_selections = <<>>
  /\ answer = NoAnswer
  /\ workers = NoWorkers

\* the calendar_name arguments tried
NameArgs == {"Workouts", "workouts"}

SelectedEvents(i) == IF calendar[i] = None THEN {} ELSE events[calendar[i]]

SaveFailures(plan) == { x \in SUBSET SaveIndices(plan) : Cardinality(x) <= MaxFail }

\* workouts_by_date mappings of at most one date
ShortPlans == { p \in Plans : Len(p) <= 1 }

\* the program driven through the CalDAVClient API, in any order; the bulk
\* operations run without per-event failures
Next ==
  \/ \E how \in {"ok", "client_error", "principal_error"} :
       Connect("api", how) /\ UNCHANGED <<appState, req, rerun>>
  \/ \E ok \in BOOLEAN : GetCalendars("api", ok) /\ UNCHANGED <<appState, req, rerun>>
  \/ \E n \in NameArgs, ok \in BOOLEAN :
       SelectCalendar("api", n, ok) /\ UNCHANGED <<appState, req, rerun>>
  \/ Disconnect("api") /\ UNCHANGED <<appState, req, rerun>>
  \/ \E d \in Dates, w \in DayLists \ {<<>>}, ok \in BOOLEAN :
       CreateWorkoutEvent("api", d, w, ok) /\ UNCHANGED <<appState, req, rerun>>
  \/ \E p \in ShortPlans :
       ExportWorkoutPlan("api", p, {}) /\ UNCHANGED <<appState, req, rerun>>
  \/ \E ok \in BOOLEAN :
       DeleteAllWorkoutEvents("api", ok, NoFailure) /\ UNCHANGED <<appState, req, rerun>>
  \/ \E s \in Dates, e \in Dates, ok \in BOOLEAN :
       DeleteWorkoutEventsInRange("api", s, e, ok, NoFailure)
         /\ UNCHANGED <<appState, req, rerun>>

Spec == Init /\ [][Next]_vars

\* workout events that earlier sessions wrote to the account
StoredWorkoutEvents ==
  { IcalEvent(ts, d, <<SwimWorkout, RunWorkout>>) : ts \in 0..MaxClock, d \in Dates }

\* an account of two calendars whose "Workouts" calendar holds the user's own
\* entries and any workout events of earlier sessions
InitStored(stored) ==
  /\ account = <<"Personal", "Workouts">>
  /\ \E W \in SUBSET stored :
       /\ Cardinality(W) <= MaxEvents
       /\ events = [c \in CalendarNames |->
                      IF c = "Workouts" THEN UserEvents \cup W ELSE UserEvents]
  /\ now = 0

InitOps ==
  /\ InitStored(StoredWorkoutEvents)
  /\ InitClients
  /\ db = <<>>
  /\ req = NoRequest
  /\ rerun = NoRerun
  /\ workout_selections = <<>>
  /\ answer = NoAnswer
  /\ workers = NoWorkers

\* select_calendar has just succeeded
JustSelected == last.op = "select_calendar" /\ last.err = "none"

\* sessions on the "Workouts" calendar: connect, select_calendar, one event
\* operation with any arguments and any remote failures, then select_calendar
\* or disconnect before the next one
NextOps ==
  \/ \E how \in {"ok", "client_error", "principal_error"} :
       Connect("api", how) /\ UNCHANGED <<appState, req, rerun>>
  \/ SelectCalendar("api", "Workouts", TRUE) /\ UNCHANGED <<appState, req, rerun>>
  \/ Disconnect("api") /\ UNCHANGED <<appState, req, rerun>>
  \/ /\ JustSelected
     /\ \E d \in Dates, w \in DayLists \ {<<>>}, ok \in BOOLEAN :
          CreateWorkoutEvent("api", d, w, ok)
     /\ UNCHANGED <<appState, req, rerun>>
  \/ /\ JustSelected
     /\ \E p \in Plans : \E sf \in SaveFailures(p) : ExportWorkoutPlan("api", p, sf)
     /\ UNCHANGED <<appState, req, rerun>>
  \/ /\ JustSelected
     /\ \E ok \in BOOLEAN, f \in FailureChoices(SelectedEvents("api")) :
          DeleteAllWorkoutEvents("api", ok, f)
     /\ UNCHANGED <<appState, req, rerun>>
  \/ /\ JustSelected
     /\ \E s \in Dates, e \in Dates, ok \in BOOLEAN :
          \E f \in FailureChoices(InRange(SelectedEvents("api"), s, e)) :
            DeleteWorkoutEventsInRange("api", s, e, ok, f)
     /\ UNCHANGED <<appState, req, rerun>>

SpecOps == InitOps /\ [][NextOps]_vars

\* the stored workouts the export route reads
SelectionChoices ==
  { NoSelection, Selection(TRUE, 0, "morning", "outdoor"),
    Selection(FALSE, 0, None, None), Selection(TRUE, 1, None, None) }
DbChoices ==
  { << Workout(1, "Swim", NoDuration, 1, NoSelection), Workout(2, "Run", 150, 2, s) >> :
      s \in SelectionChoices }

InitRoute ==
  /\ InitRemote
  /\ InitClients
  /\ db \in DbChoices
  /\ req = NoRequest
  /\ rerun = NoRerun
  /\ workout_selections = <<>>
  /\ answer = NoAnswer
  /\ workers = NoWorkers

\* export requests served one after the other
NextRoute ==
  \/ \E sd \in BodyValues, ed \in BodyValues,
        cr \in {"ok", "missing", "no_calendar"}, n \in {"Workouts", "Gym"} :
       RouteBegin(sd, ed, cr, n)
  \/ \E how \in {"ok", "client_error", "principal_error"} : RouteConnect(how)
  \/ \E ok \in BOOLEAN : RouteSelect(ok)
  \/ \E ok \in BOOLEAN :
       \E f \in FailureChoices(InRange(SelectedEvents("req"), req.start, req.end)) :
         RouteDelete(ok, f)
  \/ \E sf \in SaveFailures(req.plan) : RouteExport(sf)
  \/ RouteFinish
  \/ Tick

SpecRoute == InitRoute /\ [][NextRoute]_vars

\* the calendar lists of the accounts a session is opened on
SessionAccounts == AccountCalendars \cup { <<"Workouts", "Personal">> }

\* the calendar_name arguments of select_calendar: omitted, empty, names that
\* exist and a name that differs from one of them in case
SessionNames == {None, "", "Personal", "Workouts", "workouts"}

InitSession ==
  /\ account \in SessionAccounts
  /\ events = [c \in CalendarNames |->
                 IF \E k \in DOMAIN account : account[k] = c THEN UserEvents ELSE {}]
  /\ now = 0
  /\ InitClients
  /\ db = <<>>
  /\ req = NoRequest
  /\ rerun = NoRerun
  /\ workout_selections = <<>>
  /\ answer = NoAnswer
  /\ workers = NoWorkers

\* the connection lifecycle alone, with every calendar_name argument
NextSession ==
  \/ \E how \in {"ok", "client_error", "principal_error"} :
       Connect("api", how) /\ UNCHANGED <<appState, req, rerun>>
  \/ \E ok \in BOOLEAN : GetCalendars("api", ok) /\ UNCHANGED <<appState, req, rerun>>
  \/ \E n \in SessionNames, ok \in BOOLEAN :
       SelectCalendar("api", n, ok) /\ UNCHANGED <<appState, req, rerun>>
  \/ Disconnect("api") /\ UNCHANGED <<appState, req, rerun>>

SpecSession == InitSession /\ [][NextSession]_vars

\* one process writes events to an empty "Workouts" calendar, call after call,
\* while the seconds of the clock pass or do not pass between two calls
NextClock ==
  \/ Connect("api", "ok") /\ UNCHANGED <<appState, req, rerun>>
  \/ SelectCalendar("api", "Workouts", TRUE) /\ UNCHANGED <<appState, req, rerun>>
  \/ \E d \in Dates, w \in DayLists \ {<<>>}, ok \in BOOLEAN :
       CreateWorkoutEvent("api", d, w, ok) /\ UNCHANGED <<appState, req, rerun>>
  \/ \E p \in ShortPlans :
       ExportWorkoutPlan("api", p, {}) /\ UNCHANGED <<appState, req, rerun>>
  \/ Tick

SpecClock == Init /\ [][NextClock]_vars

\* the workout dicts whose note line is rendered: every duration with the
\* other keys fixed, and every way the other keys can be present or absent
DurationChoices == (0..MaxDuration) \cup {NoDuration}
FormatWorkouts ==
  { [workoutType |-> "Run", workoutLocation |-> None, timeOfDay |-> "morning",
     plannedDuration |-> d] : d \in DurationChoices }
  \cup [workoutType : {"Run", Missing}, workoutLocation : {"outdoor", None, Missing},
        timeOfDay : {"morning", None, Missing}, plannedDuration : {150}]

\* events of one workout are created on one date of the "Workouts" calendar
NextFormat ==
  \/ Connect("api", "ok") /\ UNCHANGED <<appState, req, rerun>>
  \/ SelectCalendar("api", "Workouts", TRUE) /\ UNCHANGED <<appState, req, rerun>>
  \/ /\ JustSelected
     /\ \E w \in FormatWorkouts : CreateWorkoutEvent("api", 1, <<w>>, TRUE)
     /\ UNCHANGED <<appState, req, rerun>>

SpecFormat == Init /\ [][NextFormat]_vars

\* the workout events of earlier sessions, one per date at most
StoredDaily == { e \in StoredWorkoutEvents : e.uid.ts = 0 }

InitRerun ==
  /\ InitStored(StoredDaily)
  /\ InitClients
  /\ db = <<>>
  /\ req = NoRequest
  /\ rerun = NoRerun
  /\ workout_selections = <<>>
  /\ answer = NoAnswer
  /\ workers = NoWorkers

\* the plans re-exported: every date of the plan is built and saved
RerunPlans == { p \in Plans : \A k \in DOMAIN p : ~FormatRaises(p[k].workouts) }

\* one plan is re-exported over one range of a stored calendar while the
\* clock runs
NextRerun ==
  \/ /\ rerun.pc = "idle"
     /\ \/ Connect("api", "ok")
        \/ SelectCalendar("api", "Workouts", TRUE)
     /\ UNCHANGED <<appState, req, rerun>>
  \/ \E s \in Dates, e \in Dates, p \in RerunPlans : RerunBegin(s, e, p)
  \/ RerunDelete
  \/ RerunExport
  \/ Tick

SpecRerun == InitRerun /\ [][NextRerun]_vars


\* dedupe runs on a table that may hold several rows for one workout
InitDedupe ==
  /\ account = <<>>
  /\ events = [c \in CalendarNames |-> {}]
  /\ now = 0
  /\ InitClients
  /\ db = <<>>
  /\ req = NoRequest
  /\ rerun = NoRerun
  /\ workout_selections \in Tables
  /\ answer = NoAnswer
  /\ workers = NoWorkers

NextDedupe ==
  \E commit \in BOOLEAN, dry_run \in BOOLEAN : Dedupe(commit, dry_run)

SpecDedupe == InitDedupe /\ [][NextDedupe]_vars

\* one stored workout, with or without a selection row; requests one after the other
InitSelection ==
  /\ account = <<>>
  /\ events = [c \in CalendarNames |-> {}]
  /\ now = 0
  /\ InitClients
  /\ req = NoRequest
  /\ rerun = NoRerun
  /\ workout_selections \in
       {<<>>} \cup { <<WorkoutSelection(1, 1, c, u)>> : c \in RowChoices, u \in 1..MaxStamp }
  /\ db = << Workout(1, "Run", 150, 1,
                     IF workout_selections = <<>> THEN NoSelection
                     ELSE SelectionView(workout_selections[1])) >>
  /\ answer = NoAnswer
  /\ workers = NoWorkers

NextSelection ==
  \/ \E data \in RequestBodies : UpdateSelection(1, data)
  \/ UpdateSelection(2, Body("False", MissingKey, Missing, Missing, Missing))

SpecSelection == InitSelection /\ [][NextSelection]_vars

\* both requests have arrived; the calendar holds no workout event yet
InitWorkers ==
  /\ InitRemote
  /\ InitClients
  /\ db \in DbChoices
  /\ req = NoRequest
  /\ rerun = NoRerun
  /\ workout_selections = <<>>
  /\ answer = NoAnswer
  /\ workers = [i \in Instances |-> "connect"]

NextWorkers ==
  \/ \E i \in Instances : WorkerConnect(i)
  \/ \E i \in Instances : WorkerSelect(i)
  \/ \E i \in Instances : WorkerDelete(i)
  \/ \E i \in Instances : WorkerExport(i)
  \/ \E i \in Instances : WorkerDisconnect(i)
  \/ Tick

SpecWorkers == InitWorkers /\ [][NextWorkers]_vars

(***************************************************************************)
(* Properties.                                                             *)
(***************************************************************************)
DeleteOps == {"delete_workout_events_in_range", "delete_all_workout_events"}
EventOps == DeleteOps \cup {"create_workout_event", "export_workout_plan"}

\* the date of an all-day event
EventDate(e) == e.dtstart \div TicksPerDay

\* the calendar the instance of the last call works on
LastEvents == events[calendar[last.inst]]

CallsOf(c, kind) == { k \in DOMAIN c.calls : c.calls[k].kind = kind }
OkCallsOf(c, kind) == { k \in CallsOf(c, kind) : c.calls[k].ok }

AccountHas(c) == \E k \in DOMAIN account : account[k] = c

\* C1: whatever sequence of delete_workout_events_in_range,
\* delete_all_workout_events, create_workout_event and export_workout_plan
\* calls is made, every event of the account that does not carry the title
\* "Joe workout schedule" is still stored, unmodified, and delete is never
\* invoked on such an event.
C1_NonWorkoutEventsKept ==
  /\ \A c \in CalendarNames : AccountHas(c) => UserEvents \subseteq events[c]
  /\ \A k \in CallsOf(last, "delete") :
       last.calls[k].uid \notin { e.uid : e \in UserEvents }

\* C1 happens: a range deletion removed a workout event while the doctor's
\* appointment lay inside the searched range
C1_Witness ==
  /\ last.op = "delete_workout_events_in_range"
  /\ last.err = "none"
  /\ last.ret.n > 0
  /\ calendar[last.inst] # None
  /\ DoctorAppointment \in InRange(LastEvents, last.start, last.end)

\* C3: a delete_workout_events_in_range(start, end) in which every deletion
\* succeeds removes exactly the workout events whose date d satisfies
\* start <= d <= end and leaves every other event of the calendar.
C3_ScopedDeletion ==
  [][ (/\ last'.op = "delete_workout_events_in_range"
       /\ last'.err = "none"
       /\ last'.errors = <<>>)
      => LET c == calendar[last'.inst] IN
         events'[c] = { e \in events[c] :
                          ~(/\ e.summary = WorkoutTitle
                            /\ last'.start <= EventDate(e)
                            /\ EventDate(e) <= last'.end) } ]_vars

\* C3 happens: a range deletion removed a workout event and a workout event
\* outside the range is still there
C3_Witness ==
  /\ last.op = "delete_workout_events_in_range"
  /\ last.err = "none"
  /\ last.errors = <<>>
  /\ last.ret.n > 0
  /\ \E e \in WorkoutEventsOf(LastEvents) :
       EventDate(e) < last.start \/ EventDate(e) > last.end


PlanInRange(plan, start_date, end_date) ==
  \A k \in DOMAIN plan : start_date <= plan[k].date /\ plan[k].date <= end_date

\* C2 as stated: after delete_workout_events_in_range(start, end) and
\* export_workout_plan(plan) have been run twice, the calendar holds as many
\* workout events as after the first run, for every range and every plan.
C2_ReExportAnyPlan ==
  rerun.pc = "done" =>
    Cardinality(WorkoutEventsOf(events[calendar["api"]])) = rerun.count1

\* C2 amended: for a plan all of whose dates lie within [start, end], after
\* delete_workout_events_in_range(start, end) and export_workout_plan(plan)
\* have been run twice the calendar holds as many workout events as after
\* the first run.
C2_ReExportPlanInRange ==
  (rerun.pc = "done" /\ PlanInRange(rerun.plan, rerun.start, rerun.end)) =>
    Cardinality(WorkoutEventsOf(events[calendar["api"]])) = rerun.count1

\* C2 happens: the second run of the pair re-created the events of a plan
\* inside the range at a later second than the first run
C2_Witness ==
  /\ rerun.pc = "done"
  /\ PlanInRange(rerun.plan, rerun.start, rerun.end)
  /\ last.ret.n > 0
  /\ rerun.count1 > 0
  /\ \A e \in WorkoutEventsOf(events[calendar["api"]]) :
       (rerun.start <= EventDate(e) /\ EventDate(e) <= rerun.end) => e.uid.ts = MaxClock

\* the calls export_to_calendar makes on its client, in order
ExpectedTrace(r) ==
  << Traced("connect", None, 0, 0, <<>>),
     Traced("select_calendar", r.calendar_name, 0, 0, <<>>),
     Traced("delete_workout_events_in_range", None, r.start, r.end, <<>>),
     Traced("export_workout_plan", None, 0, 0, r.plan),
     Traced("disconnect", None, 0, 0, <<>>) >>

\* C4: the calls the export route makes on its client are, in this order,
\* connect, select_calendar(calendar_name), delete_workout_events_in_range
\* with the requested range, export_workout_plan(plan), disconnect: the
\* deletion precedes the export and delete_all_workout_events is never called.
C4_RouteCallOrder ==
  /\ Len(req.trace) <= 5
  /\ \A k \in DOMAIN req.trace : req.trace[k] = ExpectedTrace(req)[k]
  /\ (req.pc = "done" /\ Len(req.trace) >= 4) => Len(req.trace) = 5

\* C4 happens: a request over several days ran to its end and its export
\* created an event
C4_Witness ==
  /\ req.pc = "done"
  /\ Len(req.trace) = 5
  /\ req.export_result.n > 0
  /\ req.start < req.end

\* the dates of a plan that carry workouts
DatedEntries(plan) == { k \in DOMAIN plan : plan[k].workouts # <<>> }

\* C5: in export_workout_plan a date whose event cannot be built or saved
\* does not end the export: every date of the plan that has workouts is
\* attempted, the events whose save succeeded are on the calendar, and the
\* returned count is the number of dates that succeeded.
C5_PartialFailureIsolation ==
  (last.op = "export_workout_plan" /\ calendar[last.inst] # None) =>
    /\ last.err = "none"
    /\ \A k \in DatedEntries(last.plan) :
         \/ \E j \in CallsOf(last, "save_event") : last.calls[j].uid.d = last.plan[k].date
         \/ \E j \in DOMAIN last.errors : last.errors[j].uid.d = last.plan[k].date
    /\ \A j \in OkCallsOf(last, "save_event") :
         \E e \in LastEvents : e.uid = last.calls[j].uid
    /\ last.ret.n = Cardinality(OkCallsOf(last, "save_event"))
    /\ last.ret.n = Cardinality(DatedEntries(last.plan)) - Len(last.errors)

\* C5 happens: the first date of a two-date plan failed and the second was
\* created
C5_Witness ==
  /\ last.op = "export_workout_plan"
  /\ last.err = "none"
  /\ Len(last.plan) = 2
  /\ Len(last.errors) = 1
  /\ last.errors[1].uid.d = last.plan[1].date
  /\ last.ret.n = 1

\* C6: export_workout_plan returns a dict {createdCount, results} whose
\* results hold one outcome per date that has workouts, each failed outcome
\* with its error message, createdCount being the number of successes.
C6_StructuredExportResult ==
  (last.op = "export_workout_plan" /\ last.err = "none") =>
    /\ last.ret.type = "dict"
    /\ Len(last.ret.results) = Cardinality(DatedEntries(last.plan))
    /\ last.ret.n = Cardinality({ k \in DOMAIN last.ret.results :
                                    last.ret.results[k].success })


\* a step in which a call is made shows in the call record or on the server
CallStep == last' # last \/ events' # events

\* the events a delete operation got back from the server, given the calendar
\* as it was before the call
Returned(c, evs) ==
  IF c.op = "delete_all_workout_events" THEN evs ELSE InRange(evs, c.start, c.end)

\* C7: in the two delete operations a failure to read or to delete one event
\* neither raises nor stops the loop: every other returned workout event is
\* still deleted, the returned count is the number of confirmed deletions,
\* and an event whose deletion failed stays on the calendar, uncounted.
C7_DeleteFailureSkipped ==
  [][ (last'.op \in DeleteOps /\ last'.err = "none" /\ CallStep)
      => LET c == calendar[last'.inst]
             failed == { last'.errors[j].uid : j \in DOMAIN last'.errors }
             confirmed == { e \in WorkoutEventsOf(Returned(last', events[c])) :
                              e.uid \notin failed }
         IN /\ events'[c] = events[c] \ confirmed
            /\ last'.ret.type = "int"
            /\ last'.ret.n = Cardinality(confirmed)
            /\ \A e \in events[c] : e.uid \in failed => e \in events'[c] ]_vars

\* C7 happens: one deletion failed and another event was deleted by the same
\* call
C7_Witness ==
  /\ last.op \in DeleteOps
  /\ last.err = "none"
  /\ \E j \in CallsOf(last, "delete") : ~last.calls[j].ok
  /\ last.ret.n > 0

\* the note lines of a stored description, in order
DescriptionLines(e) == SelectSeq(e.description, LAMBDA t : t.tok = "line")

C9_NotConnected ==
  [][ (last'.op \in {"get_calendars", "select_calendar"} /\ principal[last'.inst] = None)
      => /\ last'.err = "NotConnected"
         /\ last'.calls = <<>>
         /\ UNCHANGED <<client, principal, calendar, account, events>> ]_vars

\* C9 happens: select_calendar failed with NotConnected on a session whose
\* connect had failed after the client object was made
C9_Witness ==
  /\ last.op = "select_calendar"
  /\ last.err = "NotConnected"
  /\ client[last.inst] # None

\* C10: create_workout_event, export_workout_plan (also with an empty plan)
\* and the two delete operations, called while no calendar is selected, fail
\* as a whole with NoCalendarSelected, record no per-date or per-event
\* failure, make no remote call and leave the remote calendars unchanged.
C10_NoCalendarSelected ==
  [][ (last'.op \in EventOps /\ calendar[last'.inst] = None)
      => /\ last'.err = "NoCalendarSelected"
         /\ last'.calls = <<>>
         /\ last'.errors = <<>>
         /\ last'.ret = RetNone
         /\ UNCHANGED <<events, client, principal, calendar>> ]_vars

\* C10 happens: export_workout_plan of a plan with workouts failed with
\* NoCalendarSelected on a connected session
C10_Witness ==
  /\ last.op = "export_workout_plan"
  /\ last.err = "NoCalendarSelected"
  /\ DatedEntries(last.plan) # {}
  /\ principal[last.inst] # None

\* C11: in every state reached by any sequence of connect (succeeding or
\* failing), get_calendars, select_calendar, event operations and disconnect,
\* a session that has a calendar selected is connected, get_calendars and
\* select_calendar succeed only on a connected session and an event operation
\* succeeds only on a session with a selected calendar.
C11_SessionStateMachine ==
  /\ \A i \in Instances : calendar[i] # None => principal[i] # None
  /\ (last.op \in {"get_calendars", "select_calendar"} /\ last.err = "none")
       => principal[last.inst] # None
  /\ (last.op \in EventOps /\ last.err = "none") => calendar[last.inst] # None

\* C11 happens: connect failed on a session that had a calendar selected
C11_Witness ==
  /\ last.op = "connect"
  /\ last.err = "ConnectError"
  /\ calendar[last.inst] # None

\* C12: disconnect never fails, makes no remote call and leaves client,
\* principal and selected calendar of the session cleared, whatever the state
\* it is called in; a second disconnect changes nothing; the call after a
\* disconnect fails with NotConnected (get_calendars, select_calendar) or
\* NoCalendarSelected (event operations).
C12_DisconnectIdempotent ==
  [][ /\ last'.op = "disconnect" =>
           /\ last'.err = "none"
           /\ last'.calls = <<>>
           /\ client'[last'.inst] = None
           /\ principal'[last'.inst] = None
           /\ calendar'[last'.inst] = None
           /\ UNCHANGED <<account, events>>
           /\ last.op = "disconnect" => UNCHANGED <<client, principal, calendar>>
      /\ last.op = "disconnect" =>
           /\ last'.op \in {"get_calendars", "select_calendar"}
                => last'.err = "NotConnected"
           /\ last'.op \in EventOps => last'.err = "NoCalendarSelected" ]_vars

\* C12 happens: a session that had written a workout event was disconnected
C12_Witness ==
  /\ last.op = "disconnect"
  /\ \A i \in Instances : calendar[i] = None
  /\ WorkoutEventsOf(events["Workouts"]) # {}

\* C13: a request of the export route that has called connect on its client
\* ends with a call of disconnect, also when connect, select_calendar,
\* delete_workout_events_in_range or export_workout_plan raised.
C13_DisconnectOnEveryExit ==
  (req.pc = "done" /\ req.trace # <<>>) =>
    req.trace[Len(req.trace)].op = "disconnect"

\* C14: select_calendar(name) on a connected session whose calendar listing
\* succeeds fails with NoCalendarsAvailable when the account has no calendar;
\* otherwise, given a name, it selects the calendar of exactly that name or
\* fails with CalendarNotFound when there is none; with the name omitted
\* (None) it selects the first calendar of the listing.  A failure leaves the
\* selection as it was.
C14_SelectCalendar ==
  [][ (/\ last'.op = "select_calendar"
       /\ principal[last'.inst] # None
       /\ last'.err # "RemoteError")
      => LET i == last'.inst
             n == last'.name
         IN IF account = <<>>
              THEN last'.err = "NoCalendarsAvailable" /\ calendar' = calendar
            ELSE IF n # None
              THEN IF \E k \in DOMAIN account : account[k] = n
                     THEN last'.err = "none" /\ calendar'[i] = n
                     ELSE last'.err = "CalendarNotFound" /\ calendar' = calendar
            ELSE last'.err = "none" /\ calendar'[i] = account[1] ]_vars

\* the events written by this program
PlannerEvents(evs) == { e \in evs : e.uid.dom = "workout-planner" }

\* C15: every event saved by create_workout_event or export_workout_plan for
\* a date d is an all-day event that starts on d and ends, exclusively, on
\* d + 1 and carries the title "Joe workout schedule"; a later
\* delete_workout_events_in_range(s, e) with s <= d <= e, or
\* delete_all_workout_events, in which nothing fails deletes each such event
\* and counts it.
C15_CreateDeleteRoundTrip ==
  [][ /\ (last'.op \in {"create_workout_event", "export_workout_plan"}
            /\ calendar[last'.inst] # None)
         => \A j \in OkCallsOf(last', "save_event") :
              /\ \E k \in DOMAIN last'.plan : last'.plan[k].date = last'.calls[j].uid.d
              /\ \E e \in events'[calendar[last'.inst]] :
                   /\ e.uid = last'.calls[j].uid
                   /\ e.summary = WorkoutTitle
                   /\ e.dtstart = e.uid.d * TicksPerDay
                   /\ e.dtend = (e.uid.d + 1) * TicksPerDay
      /\ (last'.op \in DeleteOps /\ last'.err = "none" /\ last'.errors = <<>>)
         => LET c == calendar[last'.inst]
                due == { e \in PlannerEvents(events[c]) :
                           \/ last'.op = "delete_all_workout_events"
                           \/ last'.start <= e.uid.d /\ e.uid.d <= last'.end }
            IN /\ \A e \in due :
                    /\ e \notin events'[c]
                    /\ \E j \in OkCallsOf(last', "delete") : last'.calls[j].uid = e.uid
               /\ last'.ret.n = Cardinality(due) ]_vars

\* C15 happens: a range of a single day deleted the workout event of that day
C15_Witness ==
  /\ last.op = "delete_workout_events_in_range"
  /\ last.err = "none"
  /\ last.errors = <<>>
  /\ last.start = last.end
  /\ last.ret.n > 0

\* C16: the identifier under which create_workout_event saves an event,
\* called directly or by export_workout_plan, is the identifier of no event
\* that an earlier call of the process has put on the calendar, however
\* little time has passed between the two calls.
C16_UniqueIdentifiers ==
  [][ CallStep =>
        \A j \in OkCallsOf(last', "save_event") :
          last'.calls[j].uid \notin { e.uid : e \in events[calendar[last'.inst]] } ]_vars

\* C17: a delete_all_workout_events in which nothing fails leaves no workout
\* event on the selected calendar, whatever the dates, keeps every other
\* event and returns the number of workout events that were there; the same
\* call made again right after it returns 0.
C17_DeleteAll ==
  [][ (last'.op = "delete_all_workout_events" /\ last'.err = "none"
         /\ last'.errors = <<>>)
      => LET c == calendar[last'.inst] IN
         /\ WorkoutEventsOf(events'[c]) = {}
         /\ events'[c] = events[c] \ WorkoutEventsOf(events[c])
         /\ last'.ret = RetInt(Cardinality(WorkoutEventsOf(events[c])))
         /\ (last.op = "delete_all_workout_events" /\ last.err = "none"
               /\ last.errors = <<>> /\ last.inst = last'.inst)
            => last'.ret.n = 0 ]_vars

\* C17 happens: delete_all_workout_events removed the workout events of two
\* dates
C17_Witness ==
  /\ last.op = "delete_all_workout_events"
  /\ last.err = "none"
  /\ last.errors = <<>>
  /\ last.ret.n >= 2

\* the remote calls of one kind that the last call made for one identifier
CallsFor(c, kind, uid) == { j \in CallsOf(c, kind) : c.calls[j].uid = uid }

\* C18: no call repeats a remote operation: connect asks the server for the
\* principal at most once, create_workout_event and export_workout_plan call
\* save_event at most once for a date, also when that save fails, and the
\* delete operations search or list once and read and delete each returned
\* event at most once, also when that fails.
C18_NoRetry ==
  /\ last.op = "connect" => Len(last.calls) <= 1
  /\ last.op \in {"create_workout_event", "export_workout_plan"} =>
       /\ Len(last.calls) = Cardinality(CallsOf(last, "save_event"))
       /\ \A k \in DOMAIN last.plan :
            Cardinality({ j \in CallsOf(last, "save_event") :
                            last.calls[j].uid.d = last.plan[k].date }) <= 1
  /\ last.op \in DeleteOps =>
       /\ Cardinality(CallsOf(last, "search") \cup CallsOf(last, "events")) <= 1
       /\ \A j \in DOMAIN last.calls :
            last.calls[j].kind \in {"load", "delete"} =>
              Cardinality(CallsFor(last, "load", last.calls[j].uid)
                            \cup CallsFor(last, "delete", last.calls[j].uid)) = 1

\* C18 happens: an export of two dates in which one save failed and the other
\* succeeded made two calls of save_event
C18_Witness ==
  /\ last.op = "export_workout_plan"
  /\ Len(last.calls) = 2
  /\ \E j \in CallsOf(last, "save_event") : ~last.calls[j].ok
  /\ \E j \in CallsOf(last, "save_event") : last.calls[j].ok

\* a request body without startDate or endDate, with a value that is no date,
\* or with startDate after endDate
InvalidRequest(r) ==
  \/ r.start \in {MissingKey, NotADate}
  \/ r.end \in {MissingKey, NotADate}
  \/ r.start > r.end

\* C19: a request whose body lacks startDate or endDate, holds a value that
\* is no date, or has startDate after endDate is answered 400, and no call
\* is made on a CalDAV client for it.
C19_InvalidRequestRejected ==
  (req.pc = "done" /\ InvalidRequest(req)) =>
    /\ req.status = 400
    /\ req.trace = <<>>

\* the stored workout is not deselected and its display date lies in the
\* requested range
Exported(w, r) ==
  /\ ~(w.selection.exists /\ ~w.selection.is_selected)
  /\ r.start <= DisplayDate(w)
  /\ DisplayDate(w) <= r.end

\* the plan entry of date d holds the data of workout w
PlannedOn(plan, d, w) ==
  \E j \in DOMAIN plan :
    /\ plan[j].date = d
    /\ \E m \in DOMAIN plan[j].workouts : plan[j].workouts[m] = WorkoutData(w)

\* C20: the plan the route hands to export_workout_plan holds, under its
\* display date (the moved date if there is one, else the planned date),
\* every stored workout that is not deselected and whose display date lies
\* within [startDate, endDate], and nothing else; a moved workout is under
\* its new date only.
C20_PlanContents ==
  (req.pc \in {"connect", "select", "delete", "export", "disconnect"}
     \/ (req.pc = "done" /\ req.trace # <<>>)) =>
    /\ \A k \in DOMAIN db :
         Exported(db[k], req) => PlannedOn(req.plan, DisplayDate(db[k]), db[k])
    /\ \A j \in DOMAIN req.plan : \A m \in DOMAIN req.plan[j].workouts :
         \E k \in DOMAIN db :
           /\ Exported(db[k], req)
           /\ req.plan[j].date = DisplayDate(db[k])
           /\ req.plan[j].workouts[m] = WorkoutData(db[k])

\* C21: a request in which connect, select_calendar,
\* delete_workout_events_in_range and export_workout_plan all returned is
\* answered 200 (with the created count, the per-date results and the
\* requested range), never 500.
C21_SuccessAnswers200 ==
  (req.pc = "done" /\ Len(req.trace) = 5) => req.status = 200

\* the fields of one kind in a note line
FieldsOf(info, k) == SelectSeq(info, LAMBDA f : f.k = k)

\* the note lines of the event that the last create_workout_event saved
SavedLines ==
  LET e == CHOOSE x \in LastEvents : x.uid = last.ret.uid IN DescriptionLines(e)

\* the Duration field of d hundredths of an hour: whole hours floor(h) and
\* minutes round((h - floor(h)) * 60)
ExpectedDuration(d) ==
  LET whole == d \div 100
      minutes == ((d % 100) * 60 + 50) \div 100
      unit == IF whole = 1 THEN "hour" ELSE "hours"
  IN IF minutes = 0 THEN Field("Duration", unit, whole, 0)
     ELSE IF whole = 0 THEN Field("Duration", "minutes", 0, minutes)
     ELSE Field("Duration", unit, whole, minutes)

\* C22: the note line of a workout with a duration of h hours has one
\* Duration field, showing floor(h) hours and round((h - floor(h)) * 60)
\* minutes: "N hour(s)" when the minutes are 0, "M minutes" when the hours
\* are 0, else "N hour(s) M minutes", "hour" exactly for N = 1; the note line
\* of a workout without a duration has no Duration field.
C22_DurationRendering ==
  (last.op = "create_workout_event" /\ last.err = "none") =>
    \A i \in DOMAIN last.plan[1].workouts :
      LET w == last.plan[1].workouts[i]
          duration == FieldsOf(SavedLines[i].info, "Duration")
      IN IF w.plannedDuration = NoDuration
           THEN duration = <<>>
           ELSE duration = <<ExpectedDuration(w.plannedDuration)>>

\* C23: every note line has one Type field and one Time field, the Time field
\* showing the workout's time of day, or "Not specified" when the key is
\* missing or its value is None; it has a Location field exactly when a
\* location is given.
C23_NoteFields ==
  (last.op = "create_workout_event" /\ last.err = "none") =>
    \A i \in DOMAIN last.plan[1].workouts :
      LET w == last.plan[1].workouts[i]
          info == SavedLines[i].info
      IN /\ Len(FieldsOf(info, "Type")) = 1
         /\ FieldsOf(info, "Time") =
              << Field("Time", IF w.timeOfDay \in {None, Missing}
                                 THEN "Not specified" ELSE w.timeOfDay, 0, 0) >>
         /\ FieldsOf(info, "Location") =
              IF w.workoutLocation \in {None, Missing} THEN <<>>
              ELSE << Field("Location", w.workoutLocation, 0, 0) >>

\* the rows of a table, and the rows of one workout in it
TableRows(table) == { table[i] : i \in DOMAIN table }
Latest(rows) == { r \in rows : \A o \in rows : r.updated_at >= o.updated_at }

C25_DeselectClearsTime ==
  [][ (/\ answer'.op = "update_selection" /\ answer'.status = 200
       /\ "isSelected" \in DOMAIN answer'.data /\ answer'.data.isSelected = "False")
      => LET w == answer'.workout_id
             data == answer'.data
             old == RowsOf(workout_selections, w)
             Unnamed(key, attr) ==
               key \notin DOMAIN data =>
                 \A r \in RowsOf(workout_selections', w) :
                   IF old = {} THEN r[attr] = Null(attr)
                   ELSE \E o \in old : o.id = r.id /\ r[attr] = o[attr]
         IN /\ RowsOf(workout_selections', w) # {}
            /\ \A r \in RowsOf(workout_selections', w) :
                 r.is_selected = "False" /\ r.time_of_day = None
            /\ Unnamed("currentPlanDay", "current_plan_day")
            /\ Unnamed("workoutLocation", "workout_location")
            /\ Unnamed("userNotes", "user_notes")
            /\ \A k \in DOMAIN db :
                 db'[k].originally_planned_day = db[k].originally_planned_day ]_vars

\* the remote search of the call failed
SearchFailed(c) == \E k \in CallsOf(c, "search") : ~c.calls[k].ok

\* C26: when the range search of delete_workout_events_in_range fails, the
\* call ends with an error, deletes nothing and leaves the calendar as it
\* was; in the export route the request then ends with status 500 without a
\* call of export_workout_plan.
C26_SearchFailureSurfaced ==
  [][ (/\ last' # last
       /\ last'.op = "delete_workout_events_in_range"
       /\ SearchFailed(last'))
      => /\ last'.err = "RemoteError"
         /\ CallsOf(last', "delete") = {}
         /\ events' = events
         /\ last'.inst = "req" =>
              /\ req'.pc = "done"
              /\ req'.status = 500
              /\ \A k \in DOMAIN req'.trace : req'.trace[k].op # "export_workout_plan" ]_vars

\* C26 happens: a request ended at a failed search while the calendar held a
\* workout event of the requested range
C26_Witness ==
  /\ req.pc = "done" /\ req.status = 500
  /\ last.inst = "req" /\ last.op = "delete_workout_events_in_range"
  /\ SearchFailed(last)
  /\ \E c \in CalendarNames :
       InRange(events[c], req.start, req.end) \cap WorkoutEventsOf(events[c]) # {}

\* the stored workout was moved to a date outside the requested range
MovedOut(w, r) ==
  /\ w.selection.exists /\ w.selection.current_plan_day # 0
  /\ (DisplayDate(w) < r.start \/ DisplayDate(w) > r.end)

\* C27: the plan the export route passes to export_workout_plan has all its
\* date keys within [startDate, endDate], so every event the call adds to the
\* calendar lies on a date of the range just cleared; a workout moved to a
\* date outside the range is in no entry of the plan.
C27_PlanWithinRange ==
  [][ (/\ last' # last
       /\ last'.op = "export_workout_plan"
       /\ last'.inst = "req")
      => /\ last'.plan = req.plan
         /\ PlanInRange(req.plan, req.start, req.end)
         /\ \A e \in events'[calendar["req"]] \ events[calendar["req"]] :
              req.start <= EventDate(e) /\ EventDate(e) <= req.end
         /\ \A k \in DOMAIN db :
              MovedOut(db[k], req) =>
                \A j \in DOMAIN req.plan : \A m \in DOMAIN req.plan[j].workouts :
                  req.plan[j].workouts[m] # WorkoutData(db[k]) ]_vars

\* C27 happens: the export of a one-day request added an event to the calendar
\* while a stored workout has its display date on another day
C27_Witness ==
  /\ last.op = "export_workout_plan" /\ last.inst = "req"
  /\ req.start = req.end
  /\ last.ret.n > 0
  /\ \E k \in DOMAIN db : DisplayDate(db[k]) # req.start

\* the session holds no client, no principal and no calendar
Unset(i) == client[i] = None /\ principal[i] = None /\ calendar[i] = None

\* C28: a connect that fails on a session with nothing set raises and leaves
\* client, principal and selected calendar unset, and a get_calendars or
\* select_calendar that follows the failed connect fails with NotConnected.
C28_FailedConnectLeavesDisconnected ==
  [][ /\ (last' # last /\ last'.op = "connect" /\ Unset(last'.inst))
           => (last'.err # "none" =>
                 /\ client'[last'.inst] = None
                 /\ principal'[last'.inst] = None
                 /\ calendar'[last'.inst] = None)
      /\ (/\ last.op = "connect" /\ last.err # "none" /\ principal[last.inst] = None
          /\ last' # last /\ last'.inst = last.inst
          /\ last'.op \in {"get_calendars", "select_calendar"})
           => last'.err = "NotConnected" ]_vars

\* C29: a select_calendar call that fails (NotConnected, NoCalendarsAvailable,
\* CalendarNotFound, or a failure of the calendar listing) leaves the selected
\* calendar of the session as it was: the calendar selected before is still
\* selected, and if none was selected none is.
C29_FailedSelectKeepsSelection ==
  [][ (last'.op = "select_calendar" /\ last'.err # "none")
      => /\ last'.err \in {"NotConnected", "NoCalendarsAvailable", "CalendarNotFound",
                          "RemoteError"}
         /\ calendar'[last'.inst] = calendar[last'.inst] ]_vars

\* C29 happens: select_calendar failed with CalendarNotFound on a session that
\* has a calendar selected
C29_Witness ==
  /\ last.op = "select_calendar"
  /\ last.err = "CalendarNotFound"
  /\ calendar[last.inst] # None

\* the workout events of one date on the calendar the requests write to
WorkoutEventsOn(d) ==
  { e \in WorkoutEventsOf(events[WorkerRequest.calendar_name]) : EventDate(e) = d }

\* C30: when two export requests for the same range and the same stored
\* workouts run at the same time, each on a session of its own, then after both
\* have ended the calendar holds at most one workout event for each date of
\* the range, however their calls interleave.
C30_ConcurrentExports ==
  (\A i \in Instances : workers[i] = "done") =>
    \A d \in WorkerRequest.start..WorkerRequest.end :
      Cardinality(WorkoutEventsOn(d)) <= 1

====
